---- MODULE Spec2Model ----
(***************************************************************************)
(* A model of enum_gen (src/src/lib.rs): the process-wide registry CACHE   *)
(* shared by #[enum_gen] and #[enum_gen_match_id] / #[enum_gen_match_self],*)
(* the per-variant attribute parser, and the match-arm generator.          *)
(*                                                                         *)
(* Token streams are sequences of token records.  The text of an Ident, a  *)
(* Punct or a Literal is a sequence of one-character strings, so that      *)
(* parse_int reads it digit by digit as the code does.  A panic is a       *)
(* result record with ok = FALSE and the panic message in err.             *)
(***************************************************************************)
EXTENDS Integers, Sequences, FiniteSets, TLC

(***************************************************************************)
(* Bounds of the model.                                                    *)
(***************************************************************************)
\* Dispatch requests that get past the registry lock in one run.
MaxRequests == 2

(***************************************************************************)
(* Tokens (proc_macro2::TokenTree).                                        *)
(***************************************************************************)
Ident(text) == [tt |-> "Ident", text |-> text]
Punct(text) == [tt |-> "Punct", text |-> text]
Literal(text) == [tt |-> "Literal", text |-> text]
Group(stream) == [tt |-> "Group", stream |-> stream]

Ok(v) == [ok |-> TRUE, val |-> v]
Panic(msg) == [ok |-> FALSE, err |-> msg]

Min(S) == CHOOSE x \in S : \A y \in S : x <= y

(***************************************************************************)
(* parse_int, lib.rs:19-25.  usize::from_str_radix: an optional leading    *)
(* "+", then at least one digit of the radix; anything else is an error.   *)
(* The literals of the model have at most four digits, far below           *)
(* usize::MAX, so the overflow error of from_str_radix cannot occur.       *)
(***************************************************************************)
DigitValue(c) ==
    CASE c = "0" -> 0 [] c = "1" -> 1 [] c = "2" -> 2 [] c = "3" -> 3
      [] c = "4" -> 4 [] c = "5" -> 5 [] c = "6" -> 6 [] c = "7" -> 7
      [] c = "8" -> 8 [] c = "9" -> 9
      [] c \in {"a", "A"} -> 10 [] c \in {"b", "B"} -> 11
      [] c \in {"c", "C"} -> 12 [] c \in {"d", "D"} -> 13
      [] c \in {"e", "E"} -> 14 [] c \in {"f", "F"} -> 15
      [] OTHER -> 99

RECURSIVE DigitsValue(_, _, _)
DigitsValue(str, radix, acc) ==
    IF str = <<>> THEN acc
    ELSE DigitsValue(Tail(str), radix, acc * radix + DigitValue(Head(str)))

from_str_radix(str, radix) ==
    LET digits == IF str # <<>> /\ Head(str) = "+" THEN Tail(str) ELSE str
    IN  IF digits = <<>> THEN Panic("ParseIntError")
        ELSE IF \E i \in 1..Len(digits) : DigitValue(digits[i]) >= radix
             THEN Panic("ParseIntError")
        ELSE Ok(DigitsValue(digits, radix, 0))

parse_int(str) ==
    IF Len(str) >= 2 /\ str[1] = "0" /\ str[2] = "x"
    THEN from_str_radix(SubSeq(str, 3, Len(str)), 16)
    ELSE from_str_radix(str, 10)

(***************************************************************************)
(* EnumVariantId, lib.rs:77-83, and its tokens, lib.rs:85-92.              *)
(***************************************************************************)
Val(n) == [tag |-> "Val", id |-> n]
Default == [tag |-> "Default"]

EnumVariantId_to_tokens(id) ==
    IF id.tag = "Val" THEN [tt |-> "Literal", usize_unsuffixed |-> id.id]
    ELSE Ident(<<"_">>)

\* EnumMatchType, lib.rs:94-113: "Id" matches on id, "Variant" on self.
EnumMatchType_to_tokens(match_by) ==
    IF match_by = "Id" THEN Ident(<<"i", "d">>)
    ELSE Ident(<<"s", "e", "l", "f">>)

\* Mutant: a match on self gives the default variant the pattern _ too.
EnumVariantMatch_default_catches_all(match_by, enum_name, variant, case) ==
    [pat |-> IF match_by = "Id" \/ variant.id.tag = "Default"
             THEN [kind |-> "id", id |-> EnumVariantId_to_tokens(variant.id)]
             ELSE [kind |-> "variant", enum |-> enum_name, name |-> variant.name,
                   binds |-> "inner"],
     EnumStructType |-> variant.name,
     EnumVariantType |-> <<enum_name, variant.name>>,
     body |-> case]

\* Mutant: the two aliases are bound the wrong way round.
EnumVariantMatch_aliases_swapped(match_by, enum_name, variant, case) ==
    [pat |-> IF match_by = "Id"
             THEN [kind |-> "id", id |-> EnumVariantId_to_tokens(variant.id)]
             ELSE [kind |-> "variant", enum |-> enum_name, name |-> variant.name,
                   binds |-> "inner"],
     EnumStructType |-> <<enum_name, variant.name>>,
     EnumVariantType |-> variant.name,
     body |-> case]

(***************************************************************************)
(* One arm of the generated match, EnumVariantMatch::to_tokens,            *)
(* lib.rs:122-148.  pat is the arm's pattern (left of =>); the block holds *)
(* the two use aliases and then the shared body case.                  *)
(***************************************************************************)
EnumVariantMatch_to_tokens(match_by, enum_name, variant, case) ==
    [pat |-> IF match_by = "Id"
             THEN [kind |-> "id", id |-> EnumVariantId_to_tokens(variant.id)]
             ELSE [kind |-> "variant", enum |-> enum_name, name |-> variant.name,
                   binds |-> "inner"],
     EnumStructType |-> variant.name,
     EnumVariantType |-> <<enum_name, variant.name>>,
     body |-> case]

IsDefault(v) == v.id.tag = "Default"
NotDefault(v) == v.id.tag # "Default"

\* Mutant: the first default variant is taken and a second one is not
\* looked for; its arm comes out among the others.
EnumVariantMatcher_first_default_wins(match_by, enum_name, variants, case) ==
    IF SelectSeq(variants, IsDefault) = <<>>
    THEN Panic("Default variant must be defined")
    ELSE LET first == Min({i \in 1..Len(variants) : IsDefault(variants[i])})
             others == [i \in 1..(Len(variants) - 1) |->
                           variants[IF i < first THEN i ELSE i + 1]]
         IN  Ok([i \in 1..Len(others) |->
                    EnumVariantMatch_to_tokens(match_by, enum_name, others[i], case)]
                \o <<EnumVariantMatch_to_tokens(match_by, enum_name,
                                                variants[first], case)>>)

\* Mutant: the arms follow the declaration order, the default one included.
EnumVariantMatcher_in_declaration_order(match_by, enum_name, variants, case) ==
    IF SelectSeq(variants, IsDefault) = <<>>
    THEN Panic("Default variant must be defined")
    ELSE IF Len(SelectSeq(variants, IsDefault)) > 1
    THEN Panic("Only one variant with default ID (_) can be defined.")
    ELSE Ok([i \in 1..Len(variants) |->
                EnumVariantMatch_to_tokens(match_by, enum_name, variants[i], case)])

\* Mutant: the arm of the default variant, after the loop, is forgotten.
EnumVariantMatcher_without_default_arm(match_by, enum_name, variants, case) ==
    IF SelectSeq(variants, IsDefault) = <<>>
    THEN Panic("Default variant must be defined")
    ELSE IF Len(SelectSeq(variants, IsDefault)) > 1
    THEN Panic("Only one variant with default ID (_) can be defined.")
    ELSE Ok([i \in 1..Len(SelectSeq(variants, NotDefault)) |->
                EnumVariantMatch_to_tokens(match_by, enum_name,
                                           SelectSeq(variants, NotDefault)[i], case)])

(***************************************************************************)
(* EnumVariantMatcher::to_tokens, lib.rs:157-196: the arms of all variants *)
(* that are not the default one, in declaration order, then the arm of the *)
(* first default variant.  Panics without a default variant or with two.   *)
(***************************************************************************)
EnumVariantMatcher_to_tokens(match_by, enum_name, variants, case) ==
    LET default_variants == SelectSeq(variants, IsDefault)
        others == SelectSeq(variants, NotDefault)
    IN  IF default_variants = <<>>
        THEN Panic("Default variant must be defined")
        ELSE IF Len(default_variants) > 1
        THEN Panic("Only one variant with default ID (_) can be defined.")
        ELSE Ok([i \in 1..Len(others) |->
                    EnumVariantMatch_to_tokens(match_by, enum_name, others[i], case)]
                \o <<EnumVariantMatch_to_tokens(match_by, enum_name,
                                                default_variants[1], case)>>)

(***************************************************************************)
(* enum_gen_match_with_enum, lib.rs:532-569.  fn_str is the attributed     *)
(* item as a token sequence (the code keeps its to_string() and lexes it   *)
(* again, which gives back the same token trees).  The last token must be  *)
(* the Group holding the function body.                                    *)
(***************************************************************************)
enum_gen_match_with_enum(enumref, enum_match_fn) ==
    LET tokens == enum_match_fn.fn_str
        n == Len(tokens)
    IN  IF n = 0 \/ tokens[n].tt # "Group"
        THEN Panic("#[enum_gen_match[_id](...)] has to be used on function definition")
        ELSE LET body == tokens[n].stream
                 variant_matcher ==
                     EnumVariantMatcher_to_tokens(enum_match_fn.match_by, enumref.name,
                                                  enumref.variants, body)
             IN  IF ~variant_matcher.ok THEN variant_matcher
                 ELSE Ok([item |-> "fn",
                          head |-> SubSeq(tokens, 1, n - 1),
                          match |-> EnumMatchType_to_tokens(enum_match_fn.match_by),
                          arms |-> variant_matcher.val])

(***************************************************************************)
(* expect_punct_token, lib.rs:287-296.                                     *)
(***************************************************************************)
expect_punct_token(tokens) ==
    IF tokens = <<>> \/ Head(tokens).tt # "Punct"
    THEN Panic("parse_fn param should be followed by = my_fn")
    ELSE IF Head(tokens).text # <<"=">>
    THEN Panic("Unknown parse_fn syntax. Expected parse_fn = my_fn")
    ELSE Ok(TRUE)

(***************************************************************************)
(* The token loop of EnumVariant::try_from, lib.rs:225-268.  id is the     *)
(* Option<EnumVariantId> found so far; the last ID = ... wins.             *)
(***************************************************************************)
None == [tag |-> "None"]

IdValue(value) ==
    IF value.tt = "Ident" /\ value.text = <<"_">> THEN Ok(Default)
    ELSE LET parsed == IF value.tt = "Group" THEN Panic("ParseIntError")
                       ELSE parse_int(value.text)
         IN  IF parsed.ok THEN Ok(Val(parsed.val))
             ELSE Panic("Invalid ID attribute. Expected a number")

RECURSIVE attr_tokens_loop(_, _)
attr_tokens_loop(tokens_iter, id) ==
    IF tokens_iter = <<>> THEN Ok(id)
    ELSE LET token == Head(tokens_iter)
             rest == Tail(tokens_iter)
         IN  IF token.tt # "Ident" THEN attr_tokens_loop(rest, id)
             ELSE IF token.text # <<"I", "D">> THEN Panic("Unknown attribute")
             ELSE IF ~expect_punct_token(rest).ok THEN expect_punct_token(rest)
             ELSE IF Tail(rest) = <<>>
             THEN Panic("Unknown attr syntax. Expected #[attr(ID = 0x42)]")
             ELSE LET value == IdValue(Head(Tail(rest)))
                  IN  IF ~value.ok THEN value
                      ELSE attr_tokens_loop(Tail(Tail(rest)), value.val)

(***************************************************************************)
(* EnumVariant::try_from, lib.rs:198-277.  An attribute is                 *)
(* [path, meta, tokens] with meta one of "List", "Path", "NameValue".      *)
(***************************************************************************)
IsAttrList(a) == a.meta = "List" /\ a.path = "attr"

RemoveAt(seq, i) == SubSeq(seq, 1, i - 1) \o SubSeq(seq, i + 1, Len(seq))

EnumVariant_try_from(variant) ==
    LET found == {i \in 1..Len(variant.attrs) : IsAttrList(variant.attrs[i])}
    IN  IF found = {}
        THEN Panic("Each enum variant needs to be have an attr attribute. #[attr(ID = 0x42)]")
        ELSE LET internal_attrs_idx == Min(found)
                 internal_attrs == variant.attrs[internal_attrs_idx]
                 attrs == RemoveAt(variant.attrs, internal_attrs_idx)
                 id == attr_tokens_loop(internal_attrs.tokens, None)
             IN  IF ~id.ok THEN id
                 ELSE IF Len(attrs) > 1
                 THEN Panic("Currently additional variant attributes are not supported")
                 ELSE IF id.val = None
                 THEN Panic("Missing ID identifier.")
                 ELSE Ok([id |-> id.val, name |-> variant.ident,
                          fields |-> variant.fields])

(***************************************************************************)
(* The state.  enums and pending_match_fns are the two maps of GlobalState *)
(* (lib.rs:27-44), as functions whose DOMAIN is the set of keys; poisoned  *)
(* is the poison flag of the Mutex CACHE, set when a call panics while it  *)
(* holds the guard.  The other variables observe the run:                  *)
(*   call     the last macro call: its name, the enum it names, "ok" or    *)
(*            the panic message, and the token stream it returned;         *)
(*   matched  the enum_gen_match_with_enum calls the last call made, in    *)
(*            order, each with the request's number and its result;        *)
(*   nreq     how many dispatch requests got past the lock so far, which   *)
(*            numbers them (rid) in the order they were made;              *)
(*   reqs     for each such request the enum name it was made for;         *)
(*   invoked  for each such request, how often it was handed to            *)
(*            enum_gen_match_with_enum;                                    *)
(*   probe    used by the specifications of the pure functions: the input  *)
(*            drawn by the initial state, and then the result with it;     *)
(*   locked   used by ConcSpec alone: some thread holds the guard of CACHE; *)
(*   threads  used by ConcSpec alone: for each thread its macro call, the  *)
(*            place it has reached in the call, and the call's locals.     *)
(***************************************************************************)
VARIABLES enums, pending_match_fns, poisoned, call, matched, nreq, reqs, invoked,
          probe, locked, threads

vars == <<enums, pending_match_fns, poisoned, call, matched, nreq, reqs, invoked,
          probe, locked, threads>>

(***************************************************************************)
(* Inputs of the calls.                                                    *)
(***************************************************************************)
EnumNames == {"U", "V"}

\* attr.to_string() of #[enum_gen_match_id(...)]: an enum name or nothing.
MatchArgs == EnumNames \cup {""}

AttrID(value) ==
    [path |-> "attr", meta |-> "List",
     tokens |-> <<Ident(<<"I", "D">>), Punct(<<"=">>), value>>]

V(name, value, fields) == [ident |-> name, attrs |-> <<AttrID(value)>>, fields |-> fields]

Tok1 == Literal(<<"1">>)
Tok2 == Literal(<<"2">>)
TokX1 == Literal(<<"0", "x", "1">>)
TokDefault == Ident(<<"_">>)

Field(name) == [vis |-> "inherited", name |-> name]

\* The variant lists handed to #[enum_gen]: one default variant last or
\* first, none, two, a repeated ID, and a variant without #[attr(...)].
VariantLists ==
    { <<V("A", Tok1, <<Field("a")>>), V("B", Tok2, <<>>), V("C", TokDefault, <<>>)>>,
      <<V("A", TokDefault, <<>>), V("B", TokX1, <<>>)>>,
      <<V("A", Tok1, <<>>), V("B", Tok2, <<>>)>>,
      <<V("A", Tok1, <<>>), V("B", Tok1, <<>>), V("C", TokDefault, <<>>)>>,
      <<V("A", TokDefault, <<>>), V("B", TokDefault, <<>>)>>,
      <<V("A", Tok1, <<>>), [ident |-> "B", attrs |-> <<>>, fields |-> <<>>]>> }

\* #[enum_gen(...)] arguments, already split into attributes (lib.rs:307-347).
StructAttrs == { <<"derive(Debug)">> }

FnItem(body) ==
    <<Ident(<<"f", "n">>), Ident(<<"f">>), Group(<<>>), Group(<<Ident(body)>>)>>

\* The items #[enum_gen_match_*] is put on: two functions with different
\* bodies, and a declaration that ends in ; and so has no body.
FnStrs ==
    { FnItem(<<"x">>), FnItem(<<"y">>),
      <<Ident(<<"f", "n">>), Ident(<<"f">>), Group(<<>>), Punct(<<";">>)>> }

\* Those of them the calls of Spec are made with: one of each kind.
CallFnStrs == FnStrs \ { FnItem(<<"y">>) }

(***************************************************************************)
(* Map helpers (HashMap::insert, HashMap::remove, Vec::push).              *)
(***************************************************************************)
\* Mutant: the map is replaced by one holding the new entry alone.
Insert_alone(map, key, value) == [k \in {key} |-> value]

Insert(map, key, value) ==
    [k \in DOMAIN map \cup {key} |-> IF k = key THEN value ELSE map[k]]

\* Mutant: the whole map is emptied.
Remove_clears(map, key) == [k \in {} |-> {}]

\* Mutant: the entry is read (HashMap::get) and stays in the map.
Remove_keeps(map, key) == map

Remove(map, key) == [k \in DOMAIN map \ {key} |-> map[k]]

\* Mutant: the new element goes to the front of the Vec.
Push_front(vec, x) == <<x>> \o vec

Push(vec, x) == Append(vec, x)

EmptyMap == [k \in {} |-> {}]

Init ==
    /\ enums = EmptyMap
    /\ pending_match_fns = EmptyMap
    /\ poisoned = FALSE
    /\ call = [op |-> "none", enum |-> "", status |-> "ok", ret |-> <<>>]
    /\ matched = <<>>
    /\ nreq = 0
    /\ reqs = <<>>
    /\ invoked = <<>>
    /\ probe = [stage |-> "off"]
    /\ locked = FALSE
    /\ threads = <<>>

(***************************************************************************)
(* The token stream #[enum_gen] returns, lib.rs:441-484: the enum again,   *)
(* each variant wrapping the struct of its name, then for each variant its *)
(* struct and, for a numbered variant, the impl with the ID constant.      *)
(***************************************************************************)
\* Mutant: the variant with ID = _ gets an ID constant too.
RECURSIVE StructsAndImpls_impl_for_default(_, _, _)
StructsAndImpls_impl_for_default(variants, attributes, enum_vis) ==
    IF variants = <<>> THEN <<>>
    ELSE LET v == Head(variants)
         IN  <<[item |-> "struct", attrs |-> attributes, vis |-> enum_vis,
                name |-> v.name, fields |-> v.fields],
               [item |-> "impl", name |-> v.name,
                ID |-> IF v.id.tag = "Val" THEN v.id.id ELSE 0]>>
             \o StructsAndImpls_impl_for_default(Tail(variants), attributes, enum_vis)

RECURSIVE StructsAndImpls(_, _, _)
StructsAndImpls(variants, attributes, enum_vis) ==
    IF variants = <<>> THEN <<>>
    ELSE LET v == Head(variants)
             struct == [item |-> "struct", attrs |-> attributes, vis |-> enum_vis,
                        name |-> v.name, fields |-> v.fields]
             impl == [item |-> "impl", name |-> v.name, ID |-> v.id.id]
         IN  (IF v.id.tag = "Val" THEN <<struct, impl>> ELSE <<struct>>)
             \o StructsAndImpls(Tail(variants), attributes, enum_vis)

RetStream(input, attributes, variants) ==
    <<[item |-> "enum", attrs |-> input.attrs, vis |-> input.vis, name |-> input.ident,
       variants |-> [i \in 1..Len(variants) |->
                        [name |-> variants[i].name, wraps |-> variants[i].name]]]>>
    \o StructsAndImpls(variants, attributes, input.vis)

\* lib.rs:431-436: every field of a variant gets the enum's visibility.
SetVis(variant, enum_vis) ==
    [variant EXCEPT !.fields = [i \in 1..Len(variant.fields) |->
                                   [variant.fields[i] EXCEPT !.vis = enum_vis]]]

\* lib.rs:490-499: what is saved of the enum.
EnumRefOf(name, variants) ==
    [name |-> name,
     variants |-> [i \in 1..Len(variants) |->
                      [id |-> variants[i].id, name |-> variants[i].name]]]

(***************************************************************************)
(* The loop over the pending functions of a newly saved enum,              *)
(* lib.rs:514-516: each is handed to enum_gen_match_with_enum in the order *)
(* of the Vec, and the first panic ends the loop.  The value of each call  *)
(* is dropped by the code; the model keeps it in matched.                  *)
(***************************************************************************)
FlushPending(enumref, pending) ==
    LET results == [i \in 1..Len(pending) |->
                       enum_gen_match_with_enum(enumref, pending[i])]
        panics == {i \in 1..Len(pending) : ~results[i].ok}
        last == IF panics = {} THEN Len(pending) ELSE Min(panics)
    IN  [i \in 1..last |-> [rid |-> pending[i].rid, result |-> results[i]]]

\* The requests of matched' were each handed to the Matcher once more.
CountInvoked(m) ==
    [r \in DOMAIN invoked |->
        invoked[r] + Cardinality({i \in 1..Len(m) : m[i].rid = r})]

Unchanged_registry == UNCHANGED <<enums, pending_match_fns, poisoned>>
Unchanged_requests == UNCHANGED <<nreq, reqs, invoked>>

\* Mutant: a panic under the guard leaves the lock as it was.
unwinds_past_guard(panicked) == FALSE

\* The MutexGuard of lib.rs:487 and 576 is dropped while the thread
\* panics: the Mutex is poisoned.
unwinds_through_guard(panicked) == panicked

\* Mutant: the previous value is looked up in the wrong map.
prev_val_from_pending(enum_ident) == enum_ident \in DOMAIN pending_match_fns

\* lib.rs:488-502: HashMap::insert returns the value the key had before.
prev_val_is_some(enum_ident) == enum_ident \in DOMAIN enums

(***************************************************************************)
(* lib.rs:428-439: the variants are parsed in order, each after its fields *)
(* got the enum's visibility; the first that does not parse panics.        *)
(***************************************************************************)
RECURSIVE ParseVariants(_, _)
ParseVariants(variants, enum_vis) ==
    IF variants = <<>> THEN Ok(<<>>)
    ELSE LET v == EnumVariant_try_from(SetVis(Head(variants), enum_vis))
         IN  IF ~v.ok THEN v
             ELSE LET rest == ParseVariants(Tail(variants), enum_vis)
                  IN  IF ~rest.ok THEN rest ELSE Ok(<<v.val>> \o rest.val)

\* Mutant: the functions made in the loop are returned after the enum.
ret_stream_and_flushed(ret_stream, m) ==
    ret_stream \o [i \in 1..Len(m) |-> m[i].result.val]

\* lib.rs:522: the call returns ret_stream alone; the values of the loop
\* over the pending functions (lib.rs:514-516) were dropped.
into_returned(ret_stream, m) == ret_stream

(***************************************************************************)
(* #[enum_gen(attr)] on the enum input, lib.rs:410-523.                    *)
(***************************************************************************)
enum_gen(attr, input) ==
    LET enum_ident == input.ident
        parsed == ParseVariants(input.variants, input.vis)
        variants == parsed.val
        ret_stream == RetStream(input, attr, variants)
        enumref == EnumRefOf(enum_ident, variants)
    IN  IF ~parsed.ok
        THEN \* lib.rs:429-439: the first variant that does not parse panics
             /\ call' = [op |-> "enum_gen", enum |-> enum_ident,
                         status |-> parsed.err, ret |-> <<>>]
             /\ matched' = <<>>
             /\ Unchanged_registry
             /\ Unchanged_requests
        ELSE IF poisoned
        THEN \* lib.rs:518-520: CACHE.lock() is Err
             /\ call' = [op |-> "enum_gen", enum |-> enum_ident,
                         status |-> "Internal chache is corrupted", ret |-> <<>>]
             /\ matched' = <<>>
             /\ Unchanged_registry
             /\ Unchanged_requests
        ELSE IF prev_val_is_some(enum_ident)
        THEN \* lib.rs:488-508: insert has replaced the value; the guard is
             \* dropped before the panic, so the lock is not poisoned
             /\ enums' = Insert(enums, enum_ident, enumref)
             /\ call' = [op |-> "enum_gen", enum |-> enum_ident,
                         status |-> "Enum name conflict!", ret |-> <<>>]
             /\ matched' = <<>>
             /\ UNCHANGED <<pending_match_fns, poisoned>>
             /\ Unchanged_requests
        ELSE IF enum_ident \in DOMAIN pending_match_fns
        THEN \* lib.rs:509-517
             LET m == FlushPending(enumref, pending_match_fns[enum_ident])
                 panicked == m # <<>> /\ ~m[Len(m)].result.ok
             IN  /\ enums' = Insert(enums, enum_ident, enumref)
                 /\ pending_match_fns' = Remove(pending_match_fns, enum_ident)
                 /\ matched' = m
                 /\ invoked' = CountInvoked(m)
                 /\ poisoned' = unwinds_through_guard(panicked)
                 /\ call' = [op |-> "enum_gen", enum |-> enum_ident,
                             status |-> IF panicked THEN m[Len(m)].result.err ELSE "ok",
                             ret |-> IF panicked THEN <<>>
                                     ELSE into_returned(ret_stream, m)]
                 /\ UNCHANGED <<nreq, reqs>>
        ELSE /\ enums' = Insert(enums, enum_ident, enumref)
             /\ call' = [op |-> "enum_gen", enum |-> enum_ident, status |-> "ok",
                         ret |-> ret_stream]
             /\ matched' = <<>>
             /\ UNCHANGED <<pending_match_fns, poisoned>>
             /\ Unchanged_requests

\* Mutant: the lookup never finds the enum.
enums_get_misses(enum_name) == FALSE

\* lib.rs:577: cache.enums.get(&enum_name) is Some.
enums_get_is_some(enum_name) == enum_name \in DOMAIN enums

(***************************************************************************)
(* process_match_fn, lib.rs:571-591.  A request that gets past the lock is *)
(* numbered; rid is that number and no part of the program's data.         *)
(***************************************************************************)
process_match_fn(op, enum_name, enum_match_fn) ==
    IF enum_name = ""
    THEN /\ call' = [op |-> op, enum |-> enum_name,
                     status |-> "Argument is missing.", ret |-> <<>>]
         /\ matched' = <<>>
         /\ Unchanged_registry
         /\ Unchanged_requests
    ELSE IF poisoned
    THEN \* lib.rs:576: CACHE.lock().unwrap() on a poisoned lock
         /\ call' = [op |-> op, enum |-> enum_name, status |-> "PoisonError",
                     ret |-> <<>>]
         /\ matched' = <<>>
         /\ Unchanged_registry
         /\ Unchanged_requests
    ELSE LET rid == nreq + 1
             request == [match_by |-> enum_match_fn.match_by,
                         fn_str |-> enum_match_fn.fn_str, rid |-> rid]
         IN  /\ nreq' = rid
             /\ reqs' = Append(reqs, enum_name)
             /\ IF enums_get_is_some(enum_name)
                THEN LET r == enum_gen_match_with_enum(enums[enum_name], request)
                     IN  /\ matched' = <<[rid |-> rid, result |-> r]>>
                         /\ invoked' = Append(invoked, 1)
                         /\ poisoned' = unwinds_through_guard(~r.ok)
                         /\ call' = [op |-> op, enum |-> enum_name,
                                     status |-> IF r.ok THEN "ok" ELSE r.err,
                                     ret |-> IF r.ok THEN <<r.val>> ELSE <<>>]
                         /\ UNCHANGED <<enums, pending_match_fns>>
                ELSE LET pending_vec ==
                             IF enum_name \in DOMAIN pending_match_fns
                             THEN pending_match_fns[enum_name] ELSE <<>>
                     IN  /\ pending_match_fns' =
                                Insert(pending_match_fns, enum_name,
                                       Push(pending_vec, request))
                         /\ matched' = <<>>
                         /\ invoked' = Append(invoked, 0)
                         /\ call' = [op |-> op, enum |-> enum_name, status |-> "ok",
                                     ret |-> <<>>]
                         /\ UNCHANGED <<enums, poisoned>>

\* #[enum_gen_match_id(attr)] on the item input, lib.rs:646-660.
enum_gen_match_id(attr, input) ==
    process_match_fn("enum_gen_match_id", attr, [match_by |-> "Id", fn_str |-> input])

\* #[enum_gen_match_self(attr)] on the item input, lib.rs:714-728.
enum_gen_match_self(attr, input) ==
    process_match_fn("enum_gen_match_self", attr,
                     [match_by |-> "Variant", fn_str |-> input])

EnumInputs ==
    { [vis |-> "pub", attrs |-> <<>>, ident |-> name, variants |-> variants] :
        name \in EnumNames, variants \in VariantLists }

Call_enum_gen ==
    /\ \E attr \in StructAttrs, input \in EnumInputs : enum_gen(attr, input)
    /\ UNCHANGED <<probe, locked, threads>>

Call_enum_gen_match_id ==
    /\ nreq < MaxRequests
    /\ \E attr \in MatchArgs, input \in CallFnStrs : enum_gen_match_id(attr, input)
    /\ UNCHANGED <<probe, locked, threads>>

Call_enum_gen_match_self ==
    /\ nreq < MaxRequests
    /\ \E attr \in MatchArgs, input \in CallFnStrs : enum_gen_match_self(attr, input)
    /\ UNCHANGED <<probe, locked, threads>>

Next == Call_enum_gen \/ Call_enum_gen_match_id \/ Call_enum_gen_match_self

Spec == Init /\ [][Next]_vars

(***************************************************************************)
(* MatcherSpec: the match generator as a function of its inputs.  The      *)
(* initial states draw an enum's variant list, a second list with the same *)
(* variant names in the same order, the kind of match and the attributed   *)
(* item; the one action applies enum_gen_match_with_enum to both lists.    *)
(***************************************************************************)
\* Variants of one enum in a probe.
MaxVariants == 3

VariantNames == <<"A", "B", "C", "D", "E">>

VariantIds == {Val(1), Val(2), Default}

\* The saved variant lists of n variants named A, B, ... in this order.
VariantRefs(n) ==
    { [i \in 1..n |-> [id |-> ids[i], name |-> VariantNames[i]]] :
        ids \in [1..n -> VariantIds] }

MatcherInit ==
    /\ enums = EmptyMap
    /\ pending_match_fns = EmptyMap
    /\ poisoned = FALSE
    /\ call = [op |-> "none", enum |-> "", status |-> "ok", ret |-> <<>>]
    /\ matched = <<>>
    /\ nreq = 0
    /\ reqs = <<>>
    /\ invoked = <<>>
    /\ locked = FALSE
    /\ threads = <<>>
    /\ \E n \in 1..MaxVariants :
         \E variants \in VariantRefs(n), other \in VariantRefs(n) :
           \E match_by \in {"Id", "Variant"}, fn_str \in FnStrs :
             probe = [stage |-> "in", variants |-> variants, other |-> other,
                      fn |-> [match_by |-> match_by, fn_str |-> fn_str]]

Probe_enum_gen_match_with_enum ==
    /\ probe.stage = "in"
    /\ probe' = [stage |-> "out", variants |-> probe.variants, other |-> probe.other,
                 fn |-> probe.fn,
                 out |-> enum_gen_match_with_enum(
                             [name |-> "U", variants |-> probe.variants], probe.fn),
                 out_other |-> enum_gen_match_with_enum(
                             [name |-> "U", variants |-> probe.other], probe.fn)]
    /\ UNCHANGED <<enums, pending_match_fns, poisoned, call, matched, nreq, reqs,
                   invoked, locked, threads>>

MatcherNext == Probe_enum_gen_match_with_enum

MatcherSpec == MatcherInit /\ [][MatcherNext]_vars

(***************************************************************************)
(* ParserSpec: EnumVariant::try_from as a function of the variant.  The    *)
(* initial states draw the attributes of a variant A, up to MaxAttrs of    *)
(* them in any order; the one action parses the variant.                   *)
(***************************************************************************)
MaxAttrs == 3

\* #[attr(ID = 1)], #[attr(ID = _)], #[attr()], #[attr], a doc comment
\* (#[doc = "..."]) and #[cfg(x)].
VariantAttrs ==
    { AttrID(Tok1), AttrID(TokDefault),
      [path |-> "attr", meta |-> "List", tokens |-> <<>>],
      [path |-> "attr", meta |-> "Path", tokens |-> <<>>],
      [path |-> "doc", meta |-> "NameValue", tokens |-> <<>>],
      [path |-> "cfg", meta |-> "List", tokens |-> <<Ident(<<"x">>)>>] }

ParserInit ==
    /\ enums = EmptyMap
    /\ pending_match_fns = EmptyMap
    /\ poisoned = FALSE
    /\ call = [op |-> "none", enum |-> "", status |-> "ok", ret |-> <<>>]
    /\ matched = <<>>
    /\ nreq = 0
    /\ reqs = <<>>
    /\ invoked = <<>>
    /\ locked = FALSE
    /\ threads = <<>>
    /\ \E n \in 0..MaxAttrs :
         \E attrs \in [1..n -> VariantAttrs] :
           probe = [stage |-> "variant",
                    variant |-> [ident |-> "A", attrs |-> attrs, fields |-> <<>>]]

Probe_EnumVariant_try_from ==
    /\ probe.stage = "variant"
    /\ probe' = [stage |-> "parsed", variant |-> probe.variant,
                 out |-> EnumVariant_try_from(probe.variant)]
    /\ UNCHANGED <<enums, pending_match_fns, poisoned, call, matched, nreq, reqs,
                   invoked, locked, threads>>

ParserNext == Probe_EnumVariant_try_from

ParserSpec == ParserInit /\ [][ParserNext]_vars

(***************************************************************************)
(* ConcSpec: macro calls made by threads that share CACHE.  Thread 1 calls *)
(* #[enum_gen] on an enum named U whose variants have parsed (parsing      *)
(* comes before the lock and touches nothing shared); every other thread   *)
(* calls #[enum_gen_match_id(U)] or #[enum_gen_match_self(U)].  A call is  *)
(* cut into the steps it makes on CACHE: the lock, each access to a map,   *)
(* each call of enum_gen_match_with_enum, and the drop of the guard.       *)
(*   pc       start, then insert/remove/flush (enum_gen) or get/expand/    *)
(*            push (process_match_fn), then unlock, then done;             *)
(*   how      what became of the call: refused by a poisoned lock, saved,  *)
(*            conflict, expanded, queued;                                  *)
(*   enumref  the enum of the call: for enum_gen the one to save, for a    *)
(*            match call the one cache.enums.get returned;                 *)
(*   pending  enum_gen's local Vec, taken out of pending_match_fns.        *)
(***************************************************************************)
MaxRequesters == 2

\* Mutant: lock() returns although another thread holds the guard.
CanLock_always == TRUE

\* Mutex::lock, lib.rs:487 and 576, returns only when no guard is alive.
CanLock == ~locked

\* The enums thread 1 may save: the variant lists that parse.
ConcEnumRefs ==
    { EnumRefOf("U", ParseVariants(l, "pub").val) :
        l \in {x \in VariantLists : ParseVariants(x, "pub").ok} }

Registrar(enumref) ==
    [op |-> "enum_gen", name |-> "U", enumref |-> enumref, request |-> None,
     pc |-> "start", how |-> "", pending |-> <<>>]

Requester(t, op, fn_str) ==
    [op |-> op, name |-> "U", enumref |-> None,
     request |-> [match_by |-> IF op = "enum_gen_match_id" THEN "Id" ELSE "Variant",
                  fn_str |-> fn_str, rid |-> t],
     pc |-> "start", how |-> "", pending |-> <<>>]

ConcInit ==
    /\ enums = EmptyMap
    /\ pending_match_fns = EmptyMap
    /\ poisoned = FALSE
    /\ call = [op |-> "none", enum |-> "", status |-> "ok", ret |-> <<>>]
    /\ matched = <<>>
    /\ nreq = 0
    /\ reqs = <<>>
    /\ invoked = <<>>
    /\ probe = [stage |-> "off"]
    /\ locked = FALSE
    /\ \E n \in 1..MaxRequesters, enumref \in ConcEnumRefs :
         \E ops \in [2..(n + 1) -> {"enum_gen_match_id", "enum_gen_match_self"}],
            fns \in [2..(n + 1) -> CallFnStrs] :
           threads = [t \in 1..(n + 1) |->
                         IF t = 1 THEN Registrar(enumref)
                         ELSE Requester(t, ops[t], fns[t])]

Unchanged_calls == UNCHANGED <<call, matched, nreq, reqs, invoked, probe>>

\* CACHE.lock(), lib.rs:487 and 576: Err on a poisoned lock, and then the
\* call panics (lib.rs:518-520, unwrap at 576) having touched nothing.
Lock(t) ==
    /\ threads[t].pc = "start"
    /\ CanLock
    /\ IF poisoned
       THEN /\ threads' = [threads EXCEPT ![t].pc = "done", ![t].how = "refused"]
            /\ UNCHANGED locked
       ELSE /\ locked' = TRUE
            /\ threads' = [threads EXCEPT
                              ![t].pc = IF threads[t].op = "enum_gen"
                                        THEN "insert" ELSE "get"]
    /\ UNCHANGED <<enums, pending_match_fns, poisoned>>
    /\ Unchanged_calls

\* enum_gen, lib.rs:488-508: insert, then the check of the previous value.
Insert_enum(t) ==
    /\ threads[t].pc = "insert"
    /\ enums' = Insert(enums, threads[t].name, threads[t].enumref)
    /\ threads' = IF prev_val_is_some(threads[t].name)
                  THEN [threads EXCEPT ![t].pc = "unlock", ![t].how = "conflict"]
                  ELSE [threads EXCEPT ![t].pc = "remove", ![t].how = "saved"]
    /\ UNCHANGED <<pending_match_fns, poisoned, locked>>
    /\ Unchanged_calls

\* enum_gen, lib.rs:509-510: pending_match_fns.remove(&enum_ident).
Remove_pending(t) ==
    /\ threads[t].pc = "remove"
    /\ IF threads[t].name \in DOMAIN pending_match_fns
       THEN /\ pending_match_fns' = Remove(pending_match_fns, threads[t].name)
            /\ threads' = [threads EXCEPT
                              ![t].pc = "flush",
                              ![t].pending = pending_match_fns[threads[t].name]]
       ELSE /\ threads' = [threads EXCEPT ![t].pc = "unlock"]
            /\ UNCHANGED pending_match_fns
    /\ UNCHANGED <<enums, poisoned, locked>>
    /\ Unchanged_calls

\* enum_gen, lib.rs:514-516: one turn of the loop over the pending Vec.  A
\* panic of enum_gen_match_with_enum unwinds through the guard.
Flush_one(t) ==
    /\ threads[t].pc = "flush"
    /\ IF threads[t].pending = <<>>
       THEN /\ threads' = [threads EXCEPT ![t].pc = "unlock"]
            /\ UNCHANGED poisoned
       ELSE LET r == enum_gen_match_with_enum(threads[t].enumref,
                                              Head(threads[t].pending))
            IN  IF r.ok
                THEN /\ threads' = [threads EXCEPT
                                       ![t].pending = Tail(threads[t].pending)]
                     /\ UNCHANGED poisoned
                ELSE /\ threads' = [threads EXCEPT ![t].pc = "unlock"]
                     /\ poisoned' = TRUE
    /\ UNCHANGED <<enums, pending_match_fns, locked>>
    /\ Unchanged_calls

\* process_match_fn, lib.rs:577: cache.enums.get(&enum_name).
Get(t) ==
    /\ threads[t].pc = "get"
    /\ threads' = IF threads[t].name \in DOMAIN enums
                  THEN [threads EXCEPT ![t].pc = "expand",
                                       ![t].enumref = enums[threads[t].name]]
                  ELSE [threads EXCEPT ![t].pc = "push"]
    /\ UNCHANGED <<enums, pending_match_fns, poisoned, locked>>
    /\ Unchanged_calls

\* process_match_fn, lib.rs:578-579.
Expand(t) ==
    /\ threads[t].pc = "expand"
    /\ LET r == enum_gen_match_with_enum(threads[t].enumref, threads[t].request)
       IN  poisoned' = (poisoned \/ ~r.ok)
    /\ threads' = [threads EXCEPT ![t].pc = "unlock", ![t].how = "expanded"]
    /\ UNCHANGED <<enums, pending_match_fns, locked>>
    /\ Unchanged_calls

\* process_match_fn, lib.rs:582-588.
Push_request(t) ==
    /\ threads[t].pc = "push"
    /\ LET pending_vec == IF threads[t].name \in DOMAIN pending_match_fns
                          THEN pending_match_fns[threads[t].name] ELSE <<>>
       IN  pending_match_fns' = Insert(pending_match_fns, threads[t].name,
                                       Push(pending_vec, threads[t].request))
    /\ threads' = [threads EXCEPT ![t].pc = "unlock", ![t].how = "queued"]
    /\ UNCHANGED <<enums, poisoned, locked>>
    /\ Unchanged_calls

\* The guard goes out of scope: lib.rs:507 (drop), 517, 591.
Unlock(t) ==
    /\ threads[t].pc = "unlock"
    /\ locked' = FALSE
    /\ threads' = [threads EXCEPT ![t].pc = "done"]
    /\ UNCHANGED <<enums, pending_match_fns, poisoned>>
    /\ Unchanged_calls

ConcNext ==
    \/ \E t \in DOMAIN threads : Lock(t)
    \/ \E t \in DOMAIN threads : Insert_enum(t)
    \/ \E t \in DOMAIN threads : Remove_pending(t)
    \/ \E t \in DOMAIN threads : Flush_one(t)
    \/ \E t \in DOMAIN threads : Get(t)
    \/ \E t \in DOMAIN threads : Expand(t)
    \/ \E t \in DOMAIN threads : Push_request(t)
    \/ \E t \in DOMAIN threads : Unlock(t)

ConcSpec == ConcInit /\ [][ConcNext]_vars

(***************************************************************************)
(* The two calls as functions of CACHE alone: what a whole call makes of   *)
(* the registry st when it runs from its lock to the drop of its guard     *)
(* with no step of another call in between.  enum_gen is taken after its   *)
(* variants have parsed.                                                   *)
(***************************************************************************)
Registry ==
    [enums |-> enums, pending_match_fns |-> pending_match_fns, poisoned |-> poisoned]

enum_gen_registry(st, enumref) ==
    IF st.poisoned
    THEN st
    ELSE IF enumref.name \in DOMAIN st.enums
    THEN [st EXCEPT !.enums = Insert(st.enums, enumref.name, enumref)]
    ELSE IF enumref.name \in DOMAIN st.pending_match_fns
    THEN LET m == FlushPending(enumref, st.pending_match_fns[enumref.name])
         IN  [enums |-> Insert(st.enums, enumref.name, enumref),
              pending_match_fns |-> Remove(st.pending_match_fns, enumref.name),
              poisoned |-> (m # <<>> /\ ~m[Len(m)].result.ok)]
    ELSE [st EXCEPT !.enums = Insert(st.enums, enumref.name, enumref)]

process_match_fn_registry(st, enum_name, request) ==
    IF st.poisoned
    THEN st
    ELSE IF enum_name \in DOMAIN st.enums
    THEN [st EXCEPT !.poisoned =
                        ~enum_gen_match_with_enum(st.enums[enum_name], request).ok]
    ELSE LET pending_vec == IF enum_name \in DOMAIN st.pending_match_fns
                            THEN st.pending_match_fns[enum_name] ELSE <<>>
         IN  [st EXCEPT !.pending_match_fns =
                            Insert(st.pending_match_fns, enum_name,
                                   Push(pending_vec, request))]

(***************************************************************************)
(* Definitions used to state the properties.                               *)
(***************************************************************************)
MatchOps == {"enum_gen_match_id", "enum_gen_match_self"}

\* The panics of EnumVariant::try_from: a call that ends with one of them
\* never reached the registry.
ParserPanics ==
    { "Each enum variant needs to be have an attr attribute. #[attr(ID = 0x42)]",
      "parse_fn param should be followed by = my_fn",
      "Unknown parse_fn syntax. Expected parse_fn = my_fn",
      "Unknown attr syntax. Expected #[attr(ID = 0x42)]",
      "Invalid ID attribute. Expected a number",
      "Unknown attribute",
      "Currently additional variant attributes are not supported",
      "Missing ID identifier." }

IsFnItem(item) == item.item = "fn"

\* The generated functions in a returned token stream.
DispatchCode(ret) == SelectSeq(ret, IsFnItem)

\* Request r waits in some pending Vec.
Queued(r) ==
    \E n \in DOMAIN pending_match_fns :
        \E i \in 1..Len(pending_match_fns[n]) : pending_match_fns[n][i].rid = r

RECURSIVE Ascending(_)
Ascending(S) ==
    IF S = {} THEN <<>> ELSE <<Min(S)>> \o Ascending(S \ {Min(S)})

Rids(m) == [i \in 1..Len(m) |-> m[i].rid]

Wildcards(variants) == {i \in 1..Len(variants) : variants[i].id.tag = "Default"}

HasBody(fn) == fn.fn_str # <<>> /\ fn.fn_str[Len(fn.fn_str)].tt = "Group"

\* Where the Matcher must put variant i of n when variant p is the default one.
ArmOf(i, p, n) == IF i < p THEN i ELSE IF i < n THEN i + 1 ELSE p

(***************************************************************************)
(* C1.  A request made before its enum is saved reaches the output: the    *)
(* functions in what the saving #[enum_gen] call returns (the request's    *)
(* own call returned nothing) are the functions the same requests return   *)
(* when made after the enum is saved.                                      *)
(***************************************************************************)
C1_DeferredDispatchReachesOutput ==
    (call.op = "enum_gen" /\ call.status = "ok" /\ matched # <<>>)
        => DispatchCode(call.ret) = [i \in 1..Len(matched) |-> matched[i].result.val]

(***************************************************************************)
(* C2.  As claimed: an #[enum_gen] call that reaches the registry with a   *)
(* name already saved panics with the name conflict.                       *)
(***************************************************************************)
C2_SecondRegistrationConflicts ==
    [][(call'.op = "enum_gen" /\ call'.enum \in DOMAIN enums
            /\ call'.status \notin ParserPanics)
        => call'.status = "Enum name conflict!"]_vars

(***************************************************************************)
(* C2, amended.  Such a call always panics: with the name conflict while   *)
(* the lock is not poisoned, with the corrupted-cache message once it is;  *)
(* it never flushes or queues anything.                                    *)
(***************************************************************************)
C2_SecondRegistrationFails ==
    [][(call'.op = "enum_gen" /\ call'.enum \in DOMAIN enums
            /\ call'.status \notin ParserPanics)
        => /\ call'.status = IF poisoned THEN "Internal chache is corrupted"
                             ELSE "Enum name conflict!"
           /\ call'.ret = <<>>
           /\ matched' = <<>>
           /\ pending_match_fns' = pending_match_fns
           /\ poisoned' = poisoned]_vars

\* A name conflict on a name that requests were made for.
C2_Witness ==
    /\ call.op = "enum_gen"
    /\ call.status = "Enum name conflict!"
    /\ \E r \in 1..nreq : reqs[r] = call.enum

(***************************************************************************)
(* C3.  A saved enum is frozen: a name that maps to a variant list maps to *)
(* the same list after every further call.                                 *)
(***************************************************************************)
C3_DefinitionFrozen ==
    [][\A n \in DOMAIN enums : n \in DOMAIN enums' /\ enums'[n] = enums[n]]_vars

C5_FlushIsFifo ==
    (call.op = "enum_gen" /\ call.status = "ok")
        => /\ Rids(matched) = Ascending({r \in 1..nreq : reqs[r] = call.enum})
           /\ \A i \in 1..Len(matched) : matched[i].result.ok
           /\ call.enum \notin DOMAIN pending_match_fns

C5_Witness ==
    /\ call.op = "enum_gen"
    /\ call.status = "ok"
    /\ Len(matched) >= 2

(***************************************************************************)
(* C6.  As claimed: a match request for an enum name that is not saved     *)
(* returns nothing, puts exactly that request at the end of the name's     *)
(* pending Vec and changes nothing else; and a request whose name is not   *)
(* saved was never handed to the Matcher.                                  *)
(***************************************************************************)
RequestStep == call'.op \in MatchOps /\ call'.enum \in EnumNames \ DOMAIN enums

RequestQueued ==
    LET n == call'.enum
        old == IF n \in DOMAIN pending_match_fns THEN pending_match_fns[n] ELSE <<>>
        new == pending_match_fns'[n]
    IN  /\ call'.status = "ok"
        /\ call'.ret = <<>>
        /\ matched' = <<>>
        /\ enums' = enums
        /\ poisoned' = poisoned
        /\ DOMAIN pending_match_fns' = DOMAIN pending_match_fns \cup {n}
        /\ \A k \in DOMAIN pending_match_fns \ {n} :
               pending_match_fns'[k] = pending_match_fns[k]
        /\ Len(new) = Len(old) + 1
        /\ SubSeq(new, 1, Len(old)) = old
        /\ new[Len(new)].rid = nreq + 1
        /\ new[Len(new)].match_by =
               (IF call'.op = "enum_gen_match_id" THEN "Id" ELSE "Variant")
        /\ new[Len(new)].fn_str \in CallFnStrs
        /\ nreq' = nreq + 1
        /\ reqs' = Append(reqs, n)

NeverMatchedWhileUnknown ==
    \A r \in 1..nreq : invoked[r] > 0 => reqs[r] \in DOMAIN enums

C6_UnknownNameQueues ==
    /\ [][RequestStep => RequestQueued]_vars
    /\ []NeverMatchedWhileUnknown

(***************************************************************************)
(* C6, amended.  The claim holds while the lock is not poisoned; once it   *)
(* is, the request panics on the lock and changes nothing in the registry. *)
(***************************************************************************)
RequestRefused ==
    /\ call'.status = "PoisonError"
    /\ call'.ret = <<>>
    /\ matched' = <<>>
    /\ UNCHANGED <<enums, pending_match_fns, poisoned, nreq, reqs, invoked>>

C6_UnknownNameQueuesUnlessPoisoned ==
    /\ [][RequestStep => IF poisoned THEN RequestRefused ELSE RequestQueued]_vars
    /\ []NeverMatchedWhileUnknown

\* A request queued behind an earlier one for the same name.
C6_Witness ==
    /\ call.op \in MatchOps
    /\ call.status = "ok"
    /\ call.ret = <<>>
    /\ call.enum \in DOMAIN pending_match_fns
    /\ Len(pending_match_fns[call.enum]) = 2
    /\ pending_match_fns[call.enum][2].rid = nreq

(***************************************************************************)
(* C7.  A match on id over a variant list with exactly one default         *)
(* variant: the arms are those of the other variants in declaration order, *)
(* each with its ID as the pattern, then the arm of the default variant    *)
(* with the pattern _, wherever the default variant was declared.          *)
(***************************************************************************)
C7_DefaultArmLast ==
    (/\ probe.stage = "out"
     /\ probe.fn.match_by = "Id"
     /\ HasBody(probe.fn)
     /\ Cardinality(Wildcards(probe.variants)) = 1)
        => LET n == Len(probe.variants)
               p == CHOOSE i \in Wildcards(probe.variants) : TRUE
           IN  /\ probe.out.ok
               /\ Len(probe.out.val.arms) = n
               /\ \A i \in 1..n :
                    LET arm == probe.out.val.arms[i]
                        v == probe.variants[ArmOf(i, p, n)]
                    IN  /\ arm.EnumStructType = v.name
                        /\ arm.pat.kind = "id"
                        /\ arm.pat.id = IF i = n THEN Ident(<<"_">>)
                                        ELSE [tt |-> "Literal",
                                              usize_unsuffixed |-> v.id.id]

\* The default variant declared first of three.
C7_Witness ==
    /\ probe.stage = "out"
    /\ probe.fn.match_by = "Id"
    /\ Len(probe.variants) = 3
    /\ Wildcards(probe.variants) = {1}
    /\ probe.out.ok
    /\ probe.out.val.arms[3].EnumStructType = "A"

(***************************************************************************)
(* C8.  As claimed: a match on self gives two variant lists of the same    *)
(* names, each with one default variant, the same sequence of arms.        *)
(***************************************************************************)
ProbeBySelf ==
    /\ probe.stage = "out"
    /\ probe.fn.match_by = "Variant"
    /\ Cardinality(Wildcards(probe.variants)) = 1
    /\ Cardinality(Wildcards(probe.other)) = 1

C8_DefaultIgnoredBySelf == ProbeBySelf => probe.out = probe.out_other

(***************************************************************************)
(* C8, amended.  The two lists get the same arms, one per variant, but not *)
(* in the same sequence: in each the arm of its default variant is last    *)
(* and the others keep the declaration order.  The sequences are the same  *)
(* when the default variant is the same one.                               *)
(***************************************************************************)
ArmSet(out) == {out.val.arms[i] : i \in 1..Len(out.val.arms)}

ArmNames(out) == [i \in 1..Len(out.val.arms) |-> out.val.arms[i].EnumStructType]

C8_SameArmsDefaultLast ==
    ProbeBySelf
        => /\ probe.out.ok = probe.out_other.ok
           /\ probe.out.ok = HasBody(probe.fn)
           /\ probe.out.ok =>
                LET n == Len(probe.variants)
                    p == CHOOSE i \in Wildcards(probe.variants) : TRUE
                    q == CHOOSE i \in Wildcards(probe.other) : TRUE
                IN  /\ ArmSet(probe.out) = ArmSet(probe.out_other)
                    /\ Len(probe.out.val.arms) = n
                    /\ Len(probe.out_other.val.arms) = n
                    /\ ArmNames(probe.out) =
                           [i \in 1..n |-> probe.variants[ArmOf(i, p, n)].name]
                    /\ ArmNames(probe.out_other) =
                           [i \in 1..n |-> probe.other[ArmOf(i, q, n)].name]
                    /\ p = q => probe.out = probe.out_other

\* Two lists whose default variants differ, and whose arms differ in order.
C8_Witness ==
    /\ ProbeBySelf
    /\ probe.out.ok
    /\ Wildcards(probe.variants) # Wildcards(probe.other)
    /\ probe.out # probe.out_other

(***************************************************************************)
(* C9.  A match on self over N variants with exactly one default variant   *)
(* has N arms, for each variant one whose pattern names the variant of the *)
(* enum and binds its payload to inner, and no arm with the pattern _.     *)
(***************************************************************************)
C9_BySelfOneArmPerVariant ==
    (/\ probe.stage = "out"
     /\ probe.fn.match_by = "Variant"
     /\ HasBody(probe.fn)
     /\ Cardinality(Wildcards(probe.variants)) = 1)
        => LET n == Len(probe.variants)
               arms == probe.out.val.arms
           IN  /\ probe.out.ok
               /\ Len(arms) = n
               /\ \A i \in 1..n :
                    Cardinality({j \in 1..Len(arms) :
                        arms[j].pat = [kind |-> "variant", enum |-> "U",
                                       name |-> probe.variants[i].name,
                                       binds |-> "inner"]}) = 1
               /\ \A j \in 1..Len(arms) : arms[j].pat.kind # "id"

\* The default variant in the middle of three.
C9_Witness ==
    /\ probe.stage = "out"
    /\ probe.fn.match_by = "Variant"
    /\ Len(probe.variants) = 3
    /\ Wildcards(probe.variants) = {2}
    /\ probe.out.ok
    /\ Len(probe.out.val.arms) = 3

(***************************************************************************)
(* C10.  The numeric IDs of every saved enum are pairwise distinct.        *)
(***************************************************************************)
C10_IdsDistinct ==
    \A n \in DOMAIN enums :
        \A i, j \in 1..Len(enums[n].variants) :
            LET a == enums[n].variants[i]
                b == enums[n].variants[j]
            IN  (i # j /\ a.id.tag = "Val" /\ b.id.tag = "Val") => a.id.id # b.id.id

(***************************************************************************)
(* C11.  Every enum saved in CACHE.enums has exactly one variant with      *)
(* ID = _ : an #[enum_gen] call whose variants hold no such variant, or    *)
(* more than one, would have to panic before it saves the enum.            *)
(***************************************************************************)
C11_ExactlyOneWildcard ==
    \A n \in DOMAIN enums : Cardinality(Wildcards(enums[n].variants)) = 1

\* The call of thread th, run alone on the registry st.
CallOn(st, th) ==
    IF th.op = "enum_gen" THEN enum_gen_registry(st, th.enumref)
    ELSE process_match_fn_registry(st, th.name, th.request)

\* The registry after the threads' calls ran one after the other, whole, in
\* the order order[i], order[i + 1], ...
RECURSIVE SequentialRun(_, _, _)
SequentialRun(st, order, i) ==
    IF i > Cardinality(DOMAIN threads) THEN st
    ELSE SequentialRun(CallOn(st, threads[order[i]]), order, i + 1)

SequentialOutcomes ==
    { SequentialRun([enums |-> EmptyMap, pending_match_fns |-> EmptyMap,
                     poisoned |-> FALSE], order, 1) :
        order \in Permutations(DOMAIN threads) }

\* Thread t is between its lock and the drop of its guard.
InCall(t) == threads[t].pc \notin {"start", "done"}

AllDone == \A t \in DOMAIN threads : threads[t].pc = "done"

(***************************************************************************)
(* C12.  Concurrent #[enum_gen] and #[enum_gen_match_*] calls on one name  *)
(* are serialized by the lock of CACHE: at most one call is between its    *)
(* lock and the drop of its guard; whenever none is, no saved enum has     *)
(* pending functions; and once every call has ended, the registry is one   *)
(* that the same calls leave when run one after the other in some order.   *)
(***************************************************************************)
C12_Serialized ==
    /\ Cardinality({t \in DOMAIN threads : InCall(t)}) <= 1
    /\ (\A t \in DOMAIN threads : ~InCall(t))
           => DOMAIN enums \cap DOMAIN pending_match_fns = {}
    /\ AllDone => Registry \in SequentialOutcomes

\* One request was queued before the enum was saved and flushed by its
\* enum_gen call, another came after and was expanded at once.
C12_Witness ==
    /\ AllDone
    /\ ~poisoned
    /\ "U" \in DOMAIN enums
    /\ \E t \in DOMAIN threads : threads[t].how = "queued"
    /\ \E t \in DOMAIN threads : threads[t].how = "expanded"

IsStruct(item) == item.item = "struct"

IsImpl(item) == item.item = "impl"

(***************************************************************************)
(* C13.  For an enum of N variants with exactly one ID = _ variant, what a *)
(* successful #[enum_gen] call returns holds exactly N structs, one per    *)
(* variant in the order of the variants, and exactly N - 1 ID constants:   *)
(* one for each numbered variant, equal to its number, and none for the    *)
(* ID = _ variant.                                                         *)
(***************************************************************************)
C13_StructsAndIdConstants ==
    (/\ call.op = "enum_gen"
     /\ call.status = "ok"
     /\ Cardinality(Wildcards(enums[call.enum].variants)) = 1)
        => LET variants == enums[call.enum].variants
               structs == SelectSeq(call.ret, IsStruct)
               impls == SelectSeq(call.ret, IsImpl)
           IN  /\ Len(structs) = Len(variants)
               /\ \A i \in 1..Len(variants) : structs[i].name = variants[i].name
               /\ Len(impls) = Len(variants) - 1
               /\ \A i \in 1..Len(variants) :
                    LET mine == {j \in 1..Len(impls) : impls[j].name = variants[i].name}
                    IN  IF variants[i].id.tag = "Val"
                        THEN /\ Cardinality(mine) = 1
                             /\ \A j \in mine : impls[j].ID = variants[i].id.id
                        ELSE mine = {}

\* A successful call for three variants, the last with ID = _, one with
\* fields.
C13_Witness ==
    /\ call.op = "enum_gen"
    /\ call.status = "ok"
    /\ Len(enums[call.enum].variants) = 3
    /\ Wildcards(enums[call.enum].variants) = {3}
    /\ Len(SelectSeq(call.ret, IsImpl)) = 2

(***************************************************************************)
(* C14.  In both kinds of match, every variant has its arm, and every arm  *)
(* is the pattern of one variant, then the two aliases, then the body of   *)
(* the attributed function as it was written: EnumStructType is the struct *)
(* of that same variant and EnumVariantType that same variant of the enum; *)
(* no arm binds an alias to another variant.                               *)
(***************************************************************************)
C14_ArmAliasesOwnCase ==
    (probe.stage = "out" /\ probe.out.ok)
        => LET n == Len(probe.variants)
               p == CHOOSE i \in Wildcards(probe.variants) : TRUE
               body == probe.fn.fn_str[Len(probe.fn.fn_str)].stream
           IN  /\ Len(probe.out.val.arms) = n
               /\ \A i \in 1..n :
                    LET arm == probe.out.val.arms[i]
                        v == probe.variants[ArmOf(i, p, n)]
                    IN  /\ IF probe.fn.match_by = "Id"
                           THEN /\ arm.pat.kind = "id"
                                /\ arm.pat.id = IF v.id.tag = "Default"
                                                THEN Ident(<<"_">>)
                                                ELSE [tt |-> "Literal",
                                                      usize_unsuffixed |-> v.id.id]
                           ELSE /\ arm.pat.kind = "variant"
                                /\ arm.pat.enum = "U"
                                /\ arm.pat.name = v.name
                        /\ arm.EnumStructType = v.name
                        /\ arm.EnumVariantType = <<"U", v.name>>
                        /\ arm.body = body

\* A match on self over three variants for the function with body y: the
\* second arm is that of the second variant.
C14_Witness ==
    /\ probe.stage = "out"
    /\ probe.out.ok
    /\ probe.fn.match_by = "Variant"
    /\ probe.fn.fn_str = FnItem(<<"y">>)
    /\ Len(probe.variants) = 3
    /\ Wildcards(probe.variants) = {3}
    /\ probe.out.val.arms[2].EnumVariantType = <<"U", "B">>
    /\ probe.out.val.arms[2].body = <<Ident(<<"y">>)>>

\* The #[attr(...)] blocks of a variant, and its other attributes.
AttrBlocks(variant) ==
    {i \in 1..Len(variant.attrs) :
        variant.attrs[i].path = "attr" /\ variant.attrs[i].meta = "List"}

OtherAttrs(variant) == (1..Len(variant.attrs)) \ AttrBlocks(variant)

(***************************************************************************)
(* C15.  EnumVariant::try_from panics for every variant that carries an    *)
(* attribute beside its #[attr(...)] block, already when there is one.     *)
(***************************************************************************)
C15_ExtraAttributeRefused ==
    (probe.stage = "parsed" /\ OtherAttrs(probe.variant) # {}) => ~probe.out.ok

(***************************************************************************)
(* C16.  EnumVariant::try_from panics for a variant without #[attr(...)]   *)
(* block and for one with more than one; it succeeds only for variants     *)
(* with exactly one.                                                       *)
(***************************************************************************)
C16_ExactlyOneAttrBlock ==
    (probe.stage = "parsed" /\ Cardinality(AttrBlocks(probe.variant)) # 1)
        => ~probe.out.ok

(***************************************************************************)
(* C17.  In both kinds of match the generator panics, and so gives no      *)
(* arms, whenever the variant list does not hold exactly one ID = _        *)
(* variant: with none the default variant is missing, with several only    *)
(* one is allowed.  With exactly one it succeeds for every variant list,   *)
(* provided the attributed item ends in a body.                            *)
(***************************************************************************)
C17_PanicsUnlessOneWildcard ==
    probe.stage = "out"
        => LET wildcards == Cardinality(Wildcards(probe.variants))
           IN  /\ wildcards # 1 => (~probe.out.ok /\ "val" \notin DOMAIN probe.out)
               /\ (wildcards = 0 /\ HasBody(probe.fn))
                      => probe.out.err = "Default variant must be defined"
               /\ (wildcards > 1 /\ HasBody(probe.fn))
                      => probe.out.err =
                             "Only one variant with default ID (_) can be defined."
               /\ (wildcards = 1 /\ HasBody(probe.fn))
                      => (probe.out.ok
                            /\ Len(probe.out.val.arms) = Len(probe.variants))

\* A match on self over three variants of which two have ID = _.
C17_Witness ==
    /\ probe.stage = "out"
    /\ probe.fn.match_by = "Variant"
    /\ HasBody(probe.fn)
    /\ Len(probe.variants) = 3
    /\ Wildcards(probe.variants) = {1, 3}
    /\ ~probe.out.ok

\* The step is a match call that names a saved enum.
RegisteredStep == call'.op \in MatchOps /\ call'.enum \in DOMAIN enums

\* The step handed a request to enum_gen_match_with_enum at once, against
\* the enum saved under the name, and returned what that made of it.
ExpandedAtOnce ==
    \E fn_str \in CallFnStrs :
        LET r == enum_gen_match_with_enum(
                     enums[call'.enum],
                     [match_by |-> IF call'.op = "enum_gen_match_id"
                                   THEN "Id" ELSE "Variant",
                      fn_str |-> fn_str])
        IN  /\ matched' = <<[rid |-> nreq', result |-> r]>>
            /\ call'.status = (IF r.ok THEN "ok" ELSE r.err)
            /\ call'.ret = (IF r.ok THEN <<r.val>> ELSE <<>>)

MapsUnchanged == enums' = enums /\ pending_match_fns' = pending_match_fns

(***************************************************************************)
(* C18.  As claimed: a match call that names a saved enum is expanded at   *)
(* once against the enum saved under that name, returns the generated      *)
(* function, and leaves both maps as they were: nothing is queued and no   *)
(* enum is added, replaced or removed.                                     *)
(***************************************************************************)
C18_RegisteredExpandsAtOnce ==
    [][RegisteredStep => (ExpandedAtOnce /\ MapsUnchanged)]_vars

(***************************************************************************)
(* C18, amended.  That holds while the lock is not poisoned, where the     *)
(* call returns the function if the generator made one and else panics     *)
(* with the generator's message and poisons the lock.  Once the lock is    *)
(* poisoned the call panics on lock() and expands nothing.  The maps are   *)
(* unchanged in every case.                                                *)
(***************************************************************************)
C18_RegisteredExpandsUnlessPoisoned ==
    [][RegisteredStep
        => /\ MapsUnchanged
           /\ IF poisoned
              THEN /\ call'.status = "PoisonError"
                   /\ call'.ret = <<>>
                   /\ matched' = <<>>
                   /\ poisoned'
              ELSE /\ ExpandedAtOnce
                   /\ poisoned' = (call'.status # "ok")]_vars

\* A match call on a saved enum has returned its function while another
\* name has functions pending.
C18_Witness ==
    /\ call.op \in MatchOps
    /\ call.enum \in DOMAIN enums
    /\ call.status = "ok"
    /\ Len(call.ret) = 1
    /\ call.ret[1].item = "fn"
    /\ DOMAIN pending_match_fns # {}

(***************************************************************************)
(* C19.  No name is at once the key of a saved enum and the key of a Vec   *)
(* of pending functions; and a Vec of pending functions is never empty.    *)
(***************************************************************************)
C19_SavedOrPending ==
    /\ DOMAIN enums \cap DOMAIN pending_match_fns = {}
    /\ \A n \in DOMAIN pending_match_fns : pending_match_fns[n] # <<>>

\* An enum was saved by a call that flushed its pending functions, while
\* another name still has functions pending.
C19_Witness ==
    /\ call.op = "enum_gen"
    /\ call.enum \in DOMAIN enums
    /\ matched # <<>>
    /\ DOMAIN pending_match_fns # {}

\* The step is the call #[enum_gen(attr)] on input, and the call got as far
\* as saving a new name: its variants parsed, the lock was not poisoned and
\* the name was not saved before.
SavingStep(attr, input) ==
    /\ call'.op = "enum_gen"
    /\ call'.enum = input.ident
    /\ ~poisoned
    /\ input.ident \notin DOMAIN enums
    /\ ParseVariants(input.variants, input.vis).ok
    /\ enum_gen(attr, input)

\* What the call returns when no function is pending for the name.
OutputWithoutPending(attr, input) ==
    RetStream(input, attr, ParseVariants(input.variants, input.vis).val)

\* Every function pending for the name of input expands against input.
PendingAllExpand(input) ==
    input.ident \in DOMAIN pending_match_fns
        => \A i \in 1..Len(pending_match_fns[input.ident]) :
              enum_gen_match_with_enum(
                  EnumRefOf(input.ident, ParseVariants(input.variants, input.vis).val),
                  pending_match_fns[input.ident][i]).ok

LockPanics == {"Internal chache is corrupted", "PoisonError"}

\* The step made a call of enum_gen_match_with_enum that panicked.
GeneratorPanicked == matched' # <<>> /\ ~matched'[Len(matched')].result.ok

(***************************************************************************)
(* C21.  A panic of the match generator under the lock, in a match call on *)
(* a saved enum or in the flush of an #[enum_gen] call, poisons the lock;  *)
(* from then on every #[enum_gen] and every match call panics and changes  *)
(* nothing, and the lock stays poisoned.  The name conflict drops the      *)
(* guard before it panics: the lock is not poisoned by it, and only a      *)
(* poisoned lock makes a call panic on lock().                             *)
(***************************************************************************)
C21_GeneratorPanicPoisons ==
    [][/\ GeneratorPanicked => (~poisoned /\ poisoned' /\ call'.status # "ok")
       /\ poisoned => /\ poisoned'
                      /\ call'.status # "ok"
                      /\ call'.ret = <<>>
                      /\ matched' = <<>>
                      /\ enums' = enums
                      /\ pending_match_fns' = pending_match_fns
       /\ call'.status = "Enum name conflict!" => (~poisoned /\ ~poisoned')
       /\ call'.status \in LockPanics => poisoned
       /\ (~poisoned /\ poisoned') => GeneratorPanicked]_vars

\* After such a panic a later #[enum_gen] call was refused at the lock.
C21_Witness ==
    /\ poisoned
    /\ call.op = "enum_gen"
    /\ call.status = "Internal chache is corrupted"
    /\ DOMAIN enums # {}

\* Map new has at name n what map old had.
SameAt(old, new, n) ==
    /\ (n \in DOMAIN new) = (n \in DOMAIN old)
    /\ n \in DOMAIN old => new[n] = old[n]

(***************************************************************************)
(* C22.  A successful #[enum_gen] call changes the registry only at the    *)
(* name of its enum: under every other name the saved enum and the Vec of  *)
(* pending functions, elements and order, are what they were.  And no call *)
(* at all removes a saved name from CACHE.enums.                           *)
(***************************************************************************)
C22_RegisterTouchesOwnNameOnly ==
    [][/\ (call'.op = "enum_gen" /\ call'.status = "ok")
            => /\ call'.enum \in DOMAIN enums'
               /\ \A n \in (DOMAIN enums \cup DOMAIN enums' \cup DOMAIN pending_match_fns
                              \cup DOMAIN pending_match_fns') \ {call'.enum} :
                    /\ SameAt(enums, enums', n)
                    /\ SameAt(pending_match_fns, pending_match_fns', n)
       /\ DOMAIN enums \subseteq DOMAIN enums']_vars

\* U was saved and its one pending function flushed while V kept its own.
C22_Witness ==
    /\ call.op = "enum_gen"
    /\ call.status = "ok"
    /\ call.enum = "U"
    /\ Len(matched) = 1
    /\ "V" \in DOMAIN pending_match_fns
    /\ "U" \notin DOMAIN pending_match_fns

====
